---- MODULE Spec2Model ----
(***************************************************************************)
(* A model of ssbench's Worker (src/ssbench/worker.py): the intake loop    *)
(* Worker.go, the gevent pool of handle_job greenlets, the per-endpoint    *)
(* ConnectionPool with the scoped Worker.connection, the retry loop of     *)
(* Worker.ignoring_http_responses, and the result writer.                  *)
(***************************************************************************)
EXTENDS Naturals, Integers, Sequences, FiniteSets, TLC

(* ------------------------------ bounds -------------------------------- *)
\* number of job messages the distribution channel delivers at most
MaxJobs == 3
\* the Worker's concurrency argument (size of the gevent pool and of every
\* ConnectionPool)
Concurrency == 2
\* largest value of the Worker's max_retries argument, for one job alone
MaxRetries == 2
\* largest value of the Worker's max_retries argument, for concurrent jobs
EngineRetries == 1

(* ----------------------------- value sets ----------------------------- *)
URLs == {"u1", "u2"}
\* job types that have a handle_<type> method
HandledTypes == {"upload_object", "update_object", "delete_object", "get_object"}
\* a type without a handle_<type> method
UnknownType == "bogus"
JobTypes == HandledTypes \cup {UnknownType}
\* the HTTP statuses the storage client raises ClientException with
Statuses == {404, 500, 503}
None == "None"
\* the end-of-stream message of the distribution channel: an empty message
EndOfStream == <<>>
\* the local hc of a greenlet that is outside Worker.connection
NoConn == [url |-> None, n |-> 0, broken |-> FALSE]

JobIds == 1..MaxJobs

\* a job message as msgpack.loads yields it
JobMessages == [type : JobTypes, noop : BOOLEAN, storage_url : URLs]

\* the messages of the producer when jobs run concurrently
EngineMessages ==
    {[type |-> "upload_object", noop |-> FALSE, storage_url |-> "u1"],
     [type |-> "delete_object", noop |-> FALSE, storage_url |-> "u2"],
     [type |-> UnknownType, noop |-> FALSE, storage_url |-> "u1"]}

\* the exceptions Worker.connection treats as a broken connection
BrokenErrors == {"CannotSendRequest", "HTTPConnectionClosed"}
\* what a call leaves behind: the exception in flight (or None), whether
\* fn_results is truthy, and the exception's http_status (0: it has none)
Outcome(e, r, s) == [exc |-> e, results |-> r, http_status |-> s]
\* fn_results = None, nothing raised: the state at the top of the retry loop
NoResults == Outcome(None, FALSE, 0)
Returned == Outcome(None, TRUE, 0)
SocketError == Outcome("socket.error", FALSE, 0)
ClientError(s) == Outcome("ClientException", FALSE, s)
Broken(b) == Outcome(b, FALSE, 0)
\* what one call fn(http_conn=conn, **args) can do
CallOutcomes ==
    {Returned, NoResults, SocketError}
    \cup {Broken(b) : b \in BrokenErrors}
    \cup {ClientError(s) : s \in Statuses}
\* raise Exception('No fn_results for %r after %d retries')
NoFnResults == Outcome("Exception: No fn_results", FALSE, 0)
\* raise NameError("Unknown job type %r")
UnknownJobType == Outcome("NameError: Unknown job type", FALSE, 0)
\* what a failing client.http_connection raises in Worker.connection
HttpConnectionError == Outcome("Exception: http_connection", FALSE, 0)
CreateErrors == {SocketError, HttpConnectionError}

\* the answers of the storage service when jobs run concurrently
EngineOutcomes == {Returned, Broken("HTTPConnectionClosed"), ClientError(404)}
EngineCreateErrors == {HttpConnectionError}
\* the same for the properties of whole behaviours
LiveMessages ==
    {[type |-> "upload_object", noop |-> FALSE, storage_url |-> "u1"],
     [type |-> UnknownType, noop |-> FALSE, storage_url |-> "u1"]}
LiveOutcomes == {Returned, Broken("HTTPConnectionClosed")}

VARIABLES
    channel,       \* the job messages the job producer sends from
    remaining,     \* how many job messages the producer has yet to send
    service,       \* the outcomes the storage service answers a call with
    factory,       \* the exceptions client.http_connection can raise
    max_retries,   \* Worker.max_retries
    conn_pools,    \* Worker.conn_pools: storage_url -> queue of idle connections
    intake,        \* position of Worker.go
    job,           \* the message Worker.go holds
    jobs,          \* the job_data of every message read, in receive order
    pc,            \* per job, the position of its handle_job greenlet
    tries,         \* per job, the local tries of ignoring_http_responses
    hc,            \* per job, the local hc of Worker.connection
    pending,       \* per job, fn_results and the exception in flight
    attempts,      \* per job, the outcomes of its calls of fn so far (history)
    result_queue,  \* Worker.result_queue
    buffered,      \* every result put on result_queue so far, in order (history)
    writer,        \* position of Worker._result_writer
    result,        \* the result _result_writer holds
    sent           \* what results_push.send has transmitted, in order

vars == <<channel, remaining, service, factory, max_retries, conn_pools,
          intake, job, jobs, pc, tries, hc, pending, attempts,
          result_queue, buffered, writer, result, sent>>

config == <<channel, service, factory, max_retries>>
poolVars == <<conn_pools>>
intakeVars == <<intake, job, jobs>>
queueVars == <<result_queue, buffered>>
writerVars == <<writer, result, sent>>

(* ------------------------------ helpers ------------------------------- *)
\* the greenlets gevent.pool.Pool currently holds
InPool == {j \in JobIds : pc[j] \notin {"none", "done", "dead"}}

\* client.http_connection(storage_url): a connection in working order. It is
\* named by its endpoint and a number; the connections of a new pool are
\* numbered from 1, and a replacement takes the number of the discarded
\* connection it replaces
Connection(u, k) == [url |-> u, n |-> k, broken |-> FALSE]

RECURSIVE FreshConnections(_, _, _)
FreshConnections(u, from, count) ==
    IF count = 0 THEN <<>>
    ELSE <<Connection(u, from)>> \o FreshConnections(u, from + 1, count - 1)

\* a pool built with the default maxsize = 1
ConnectionPoolOfOne(u, maxsize) == FreshConnections(u, 1, 1)

\* ConnectionPool.__init__: the queue filled with maxsize new connections
ConnectionPool(u, maxsize) == FreshConnections(u, 1, maxsize)

Absent == "absent"
\* add_dicts(job_data, completed_at=..., worker_id=..., **kwargs): the job's
\* fields are stood for by its number; a key no dict has is Absent
add_dicts(j, kwargs) ==
    kwargs @@ [job |-> j, first_byte_latency |-> Absent,
               last_byte_latency |-> Absent, trans_id |-> Absent,
               exception |-> Absent, traceback |-> Absent]

\* repr(e)
Repr(e) ==
    IF e.exc = "ClientException"
    THEN CASE e.http_status = 404 -> "ClientException: 404"
           [] e.http_status = 500 -> "ClientException: 500"
           [] e.http_status = 503 -> "ClientException: 503"
    ELSE e.exc

\* traceback.format_exc() inside an except clause
format_exc(e) == "Traceback (most recent call last)"

\* resp_headers.get(key, None) on the headers a successful call returned
HeaderGet(key) == "from headers"

\* one status tuple, (404, 503), passed by every handler
SharedStatuses(type) == {404, 503}

\* every handler passing the statuses of handle_upload_object
UploadStatuses(type) == {503}

\* the statuses each handler passes to ignoring_http_responses
HandlerStatuses(type) ==
    IF type \in {"upload_object", "update_object"} THEN {503} ELSE {404, 503}

(* ------------------------------- Init --------------------------------- *)
\* the state after Worker.__init__; the producer sends at most count messages
\* drawn from messages, the storage service answers with outcomes
InitWith(messages, count, outcomes, errors, retries) ==
    /\ channel = messages
    /\ remaining = count
    /\ service = outcomes
    /\ factory = errors
    /\ max_retries \in retries
    /\ conn_pools = <<>>
    /\ intake = "recv"
    /\ job = <<>>
    /\ jobs = <<>>
    /\ pc = [j \in JobIds |-> "none"]
    /\ tries = [j \in JobIds |-> 0]
    /\ hc = [j \in JobIds |-> NoConn]
    /\ pending = [j \in JobIds |-> NoResults]
    /\ attempts = [j \in JobIds |-> <<>>]
    /\ result_queue = <<>>
    /\ buffered = <<>>
    /\ writer = "get"
    /\ result = <<>>
    /\ sent = <<>>

\* concurrent jobs
Init ==
    InitWith(EngineMessages, MaxJobs, EngineOutcomes, EngineCreateErrors,
             0..EngineRetries)

\* concurrent jobs on one endpoint, for the properties of whole behaviours
InitLive ==
    InitWith(LiveMessages, MaxJobs, LiveOutcomes, EngineCreateErrors,
             0..EngineRetries)

\* one job of any kind, every outcome, every retry maximum
InitRetry == InitWith(JobMessages, 1, CallOutcomes, CreateErrors, 0..MaxRetries)

(* ----------------------------- Worker.go ------------------------------ *)
\* a loop that skips an empty message and goes on receiving
RecvSkipsEmpty(msg) ==
    /\ intake = "recv"
    /\ msg # EndOfStream => remaining > 0 /\ msg[1] \in channel
    /\ job' = msg
    /\ IF msg # EndOfStream
       THEN /\ jobs' = Append(jobs, msg[1])
            /\ remaining' = remaining - 1
            /\ intake' = "conn_pools"
       ELSE /\ jobs' = jobs
            /\ remaining' = remaining
            /\ intake' = "recv"
    /\ UNCHANGED <<config, poolVars, pc, tries, hc, pending, attempts,
                   queueVars, writerVars>>

\* job = self.work_pull.recv(); while job: job_data = msgpack.loads(job)
Recv(msg) ==
    /\ intake = "recv"
    /\ msg # EndOfStream => remaining > 0 /\ msg[1] \in channel
    /\ job' = msg
    /\ IF msg # EndOfStream
       THEN /\ jobs' = Append(jobs, msg[1])
            /\ remaining' = remaining - 1
            /\ intake' = "conn_pools"
       ELSE /\ jobs' = jobs
            /\ remaining' = remaining
            /\ intake' = "stopped"
    /\ UNCHANGED <<config, poolVars, pc, tries, hc, pending, attempts,
                   queueVars, writerVars>>

\* an intake loop that builds a pool for every job, known endpoint or not
EnsurePoolAnew ==
    /\ intake = "conn_pools"
    /\ LET u == job[1].storage_url IN
         conn_pools' = [v \in DOMAIN conn_pools \cup {u} |->
                           IF v = u THEN ConnectionPool(u, Concurrency)
                           ELSE conn_pools[v]]
    /\ intake' = "spawn"
    /\ UNCHANGED <<config, remaining, job, jobs, pc, tries, hc, pending,
                   attempts, queueVars, writerVars>>

\* if job_data['storage_url'] not in self.conn_pools: ... ConnectionPool(...)
EnsurePool ==
    /\ intake = "conn_pools"
    /\ LET u == job[1].storage_url IN
         IF u \notin DOMAIN conn_pools
         THEN conn_pools' = (u :> ConnectionPool(u, Concurrency)) @@ conn_pools
         ELSE UNCHANGED conn_pools
    /\ intake' = "spawn"
    /\ UNCHANGED <<config, remaining, job, jobs, pc, tries, hc, pending,
                   attempts, queueVars, writerVars>>

\* a pool that never makes spawn wait
PoolNeverFull(size) == FALSE

\* gevent.pool.Pool.spawn waits while the pool holds `size` greenlets
PoolFull(size) == Cardinality(InPool) >= size

\* pool.spawn(self.handle_job, job_data)
Spawn ==
    /\ intake = "spawn"
    /\ ~PoolFull(Concurrency)
    /\ pc' = [pc EXCEPT ![Len(jobs)] = "handle_job"]
    /\ intake' = "recv"
    /\ UNCHANGED <<config, remaining, poolVars, job, jobs, tries, hc, pending,
                   attempts, queueVars, writerVars>>

(* --------------------------- Worker.handle_job ------------------------ *)
\* self.result_queue.put(msgpack.dumps(add_dicts(...)))
put_results(j, kwargs) ==
    /\ result_queue' = Append(result_queue, add_dicts(j, kwargs))
    /\ buffered' = Append(buffered, add_dicts(j, kwargs))

\* a dispatcher that looks at the type only
HandlerByType(job_data) ==
    IF job_data.type \in HandledTypes THEN job_data.type ELSE None

\* a dispatcher that falls back to handle_noop for a type it does not know
HandlerOrNoop(job_data) ==
    IF job_data.noop \/ job_data.type \notin HandledTypes THEN "handle_noop"
    ELSE job_data.type

\* getattr(self, 'handle_%s' % job_data['type'], None), or handle_noop
Handler(job_data) ==
    IF job_data.noop THEN "handle_noop"
    ELSE IF job_data.type \in HandledTypes THEN job_data.type
    ELSE None

\* handle_noop
handle_noop(j) ==
    put_results(j, [first_byte_latency |-> "0.0", last_byte_latency |-> "0.0",
                    trans_id |-> None])

\* the greenlet starts: dispatch; handle_noop runs to its end at once, an
\* unknown type ends the greenlet with NameError
HandleJob(j) ==
    /\ pc[j] = "handle_job"
    /\ LET handler == Handler(jobs[j]) IN
         IF handler = "handle_noop"
         THEN /\ handle_noop(j)
              /\ pc' = [pc EXCEPT ![j] = "done"]
              /\ UNCHANGED <<tries, pending>>
         ELSE IF handler = None
         THEN /\ pending' = [pending EXCEPT ![j] = UnknownJobType]
              /\ pc' = [pc EXCEPT ![j] = "dead"]
              /\ UNCHANGED <<tries, queueVars>>
         ELSE /\ tries' = [tries EXCEPT ![j] = 0]
              /\ pending' = [pending EXCEPT ![j] = NoResults]
              /\ pc' = [pc EXCEPT ![j] = "get"]
              /\ UNCHANGED queueVars
    /\ UNCHANGED <<config, remaining, poolVars, intakeVars, hc, attempts,
                   writerVars>>

(* ------------- Worker.connection and ignoring_http_responses ---------- *)
\* a borrow that reads the head of the queue and leaves it there
GetPeeks(j) ==
    /\ pc[j] = "get"
    /\ LET u == jobs[j].storage_url IN
         /\ conn_pools[u] # <<>>
         /\ hc' = [hc EXCEPT ![j] = Head(conn_pools[u])]
         /\ conn_pools' = conn_pools
    /\ pc' = [pc EXCEPT ![j] = "fn"]
    /\ UNCHANGED <<config, remaining, intakeVars, tries, pending, attempts,
                   queueVars, writerVars>>

\* hc = self.conn_pools[storage_url].get(): waits while the queue is empty;
\* then fn is called and the greenlet waits for the storage service
Get(j) ==
    /\ pc[j] = "get"
    /\ LET u == jobs[j].storage_url IN
         /\ conn_pools[u] # <<>>
         /\ hc' = [hc EXCEPT ![j] = Head(conn_pools[u])]
         /\ conn_pools' = [conn_pools EXCEPT ![u] = Tail(@)]
    /\ pc' = [pc EXCEPT ![j] = "fn"]
    /\ UNCHANGED <<config, remaining, intakeVars, tries, pending, attempts,
                   queueVars, writerVars>>

\* an off-by-one exhaustion test
ExhaustedEarly(t) == t >= max_retries

\* if tries > self.max_retries
Exhausted(t) == t > max_retries

\* a retry test that forgets the status
RetryingAnyStatus(error, statuses, t) == t <= max_retries

\* if error.http_status in statuses and tries <= self.max_retries
Retrying(error, statuses, t) == error.http_status \in statuses /\ t <= max_retries

\* a loop that counts an empty result only, the exceptions not
CountedEmptyOnly(o) == o.exc = None /\ ~o.results

\* whether the retry loop counts the outcome of the with block in tries
Counted(o) ==
    \/ o.exc = None /\ ~o.results
    \/ o.exc \in {"socket.error", "ClientException"}

\* what the retry loop does with the outcome of the with block, tries already
\* counted: "break", "again" (the next iteration) or "raise"
Verdict(o, statuses, t) ==
    CASE o.exc = None /\ o.results -> "break"
      [] o.exc = None /\ ~o.results -> IF Exhausted(t) THEN "raise" ELSE "again"
      [] o.exc = "socket.error" -> IF Exhausted(t) THEN "raise" ELSE "again"
      [] o.exc = "ClientException" ->
            IF Retrying(o, statuses, t) THEN "again" ELSE "raise"
      [] OTHER -> "raise"

\* an exhausted loop that raises its own 'No fn_results' whatever was caught
RaisedGeneric(o) == NoFnResults

\* the exception that leaves ignoring_http_responses on "raise"
Raised(o) == IF o.exc = None THEN NoFnResults ELSE o

\* a scope without the finally clause: a connection is put back only when
\* the with block ends without an exception
ReturningUnlessRaised(j, o, replacement) ==
    IF o.exc = None THEN <<IF replacement # NoConn THEN replacement ELSE hc[j]>>
    ELSE <<>>

\* the connections the finally clause of Worker.connection puts back when job
\* j leaves the with block with outcome o: the one create() made, or else the
\* borrowed one (replacement = NoConn: create() made none)
Returning(j, o, replacement) ==
    <<IF replacement # NoConn THEN replacement ELSE hc[j]>>

\* the with block is left with outcome o: finally puts a connection back
\* (waiting while the queue is full); then the statements after the with block
\* and the except clauses of the retry loop
LeaveWith(j, o, replacement) ==
    LET u == jobs[j].storage_url
        t == IF Counted(o) THEN tries[j] + 1 ELSE tries[j]
        v == Verdict(o, HandlerStatuses(jobs[j].type), t)
    IN /\ Len(conn_pools[u]) < Concurrency
       /\ conn_pools' = [conn_pools EXCEPT
                            ![u] = @ \o Returning(j, o, replacement)]
       /\ hc' = [hc EXCEPT ![j] = NoConn]
       /\ tries' = [tries EXCEPT ![j] = t]
       /\ pending' = [pending EXCEPT ![j] =
                         CASE v = "break" -> o
                           [] v = "again" -> NoResults
                           [] v = "raise" -> Raised(o)]
       /\ pc' = [pc EXCEPT ![j] =
                    CASE v = "break" -> "respond"
                      [] v = "again" -> "get"
                      [] v = "raise" -> "except"]

\* fn_results = fn(http_conn=conn, **args) ends with outcome o. A broken
\* connection is closed (errors ignored) and the greenlet goes on to create()
Call(j, o) ==
    /\ pc[j] = "fn"
    /\ o \in service
    /\ attempts' = [attempts EXCEPT ![j] = Append(@, o)]
    /\ IF o.exc \in BrokenErrors
       THEN /\ hc' = [hc EXCEPT ![j].broken = TRUE]
            /\ pending' = [pending EXCEPT ![j] = o]
            /\ pc' = [pc EXCEPT ![j] = "create"]
            /\ UNCHANGED <<conn_pools, tries>>
       ELSE LeaveWith(j, o, NoConn)
    /\ UNCHANGED <<config, remaining, intakeVars, queueVars, writerVars>>

\* a scope that raises the broken-connection exception again after replacing
\* the connection
CreateOkReraises(j) ==
    /\ pc[j] = "create"
    /\ LeaveWith(j, pending[j], Connection(jobs[j].storage_url, hc[j].n))
    /\ UNCHANGED <<config, remaining, intakeVars, attempts, queueVars,
                   writerVars>>

\* hc = self.conn_pools[storage_url].create(): a new connection, and the
\* broken-connection exception is swallowed ...
CreateOk(j) ==
    /\ pc[j] = "create"
    /\ LeaveWith(j, NoResults, Connection(jobs[j].storage_url, hc[j].n))
    /\ UNCHANGED <<config, remaining, intakeVars, attempts, queueVars,
                   writerVars>>

\* ... or create() raises e and hc stays what it was
CreateFails(j, e) ==
    /\ pc[j] = "create"
    /\ e \in factory
    /\ LeaveWith(j, e, NoConn)
    /\ UNCHANGED <<config, remaining, intakeVars, attempts, queueVars,
                   writerVars>>

\* the handler returns: the locals of ignoring_http_responses are gone
Return(j) ==
    /\ tries' = [tries EXCEPT ![j] = 0]
    /\ pending' = [pending EXCEPT ![j] = NoResults]
    /\ attempts' = [attempts EXCEPT ![j] = <<>>]

\* self._put_results_from_response(object_info, headers), and the greenlet ends
Respond(j) ==
    /\ pc[j] = "respond"
    /\ put_results(j, [first_byte_latency |->
                           HeaderGet("x-swiftstack-first-byte-latency"),
                       last_byte_latency |->
                           HeaderGet("x-swiftstack-last-byte-latency"),
                       trans_id |-> HeaderGet("x-trans-id")])
    /\ pc' = [pc EXCEPT ![j] = "done"]
    /\ Return(j)
    /\ UNCHANGED <<config, remaining, poolVars, intakeVars, hc, writerVars>>

\* an except clause that swallows the exception without a result
ExceptSwallows(j) ==
    /\ pc[j] = "except"
    /\ pc' = [pc EXCEPT ![j] = "done"]
    /\ Return(j)
    /\ UNCHANGED <<config, remaining, poolVars, intakeVars, hc, queueVars,
                   writerVars>>

\* handle_job without its try: the exception ends the greenlet
ExceptPropagates(j) ==
    /\ pc[j] = "except"
    /\ pc' = [pc EXCEPT ![j] = "dead"]
    /\ UNCHANGED <<config, remaining, poolVars, intakeVars, tries, hc, pending,
                   attempts, queueVars, writerVars>>

\* except Exception as e: self.put_results(job_data, exception=repr(e),
\* traceback=traceback.format_exc()), and the greenlet ends
Except(j) ==
    /\ pc[j] = "except"
    /\ put_results(j, [exception |-> Repr(pending[j]),
                       traceback |-> format_exc(pending[j])])
    /\ pc' = [pc EXCEPT ![j] = "done"]
    /\ Return(j)
    /\ UNCHANGED <<config, remaining, poolVars, intakeVars, hc, writerVars>>

(* ------------------------- Worker._result_writer ---------------------- *)
\* a writer that takes the newest result of the queue
WriterGetNewest ==
    /\ writer = "get"
    /\ result_queue # <<>>
    /\ result' = <<result_queue[Len(result_queue)]>>
    /\ result_queue' = SubSeq(result_queue, 1, Len(result_queue) - 1)
    /\ writer' = "send"
    /\ UNCHANGED <<config, remaining, poolVars, intakeVars, pc, tries, hc,
                   pending, attempts, buffered, sent>>

\* result = self.result_queue.get(): waits while the queue is empty
WriterGet ==
    /\ writer = "get"
    /\ result_queue # <<>>
    /\ result' = <<Head(result_queue)>>
    /\ result_queue' = Tail(result_queue)
    /\ writer' = "send"
    /\ UNCHANGED <<config, remaining, poolVars, intakeVars, pc, tries, hc,
                   pending, attempts, buffered, sent>>

\* self.results_push.send(result)
WriterSend ==
    /\ writer = "send"
    /\ sent' = Append(sent, result[1])
    /\ result' = <<>>
    /\ writer' = "get"
    /\ UNCHANGED <<config, remaining, poolVars, intakeVars, pc, tries, hc,
                   pending, attempts, queueVars>>

(* ------------------------------ the system ---------------------------- *)
Next ==
    \/ \E msg \in {EndOfStream} \cup {<<m>> : m \in JobMessages} : Recv(msg)
    \/ EnsurePool
    \/ Spawn
    \/ \E j \in JobIds : HandleJob(j)
    \/ \E j \in JobIds : Get(j)
    \/ \E j \in JobIds : \E o \in CallOutcomes : Call(j, o)
    \/ \E j \in JobIds : CreateOk(j)
    \/ \E j \in JobIds : \E e \in CreateErrors : CreateFails(j, e)
    \/ \E j \in JobIds : Respond(j)
    \/ \E j \in JobIds : Except(j)
    \/ WriterGet
    \/ WriterSend

Spec == Init /\ [][Next]_vars

RetrySpec == InitRetry /\ [][Next]_vars

\* gevent runs every greenlet that can run, the storage service answers every
\* call (the network timeout bounds it) and client.http_connection returns;
\* nothing makes the producer send
Fairness ==
    /\ WF_vars(EnsurePool)
    /\ WF_vars(Spawn)
    /\ \A j \in JobIds :
          /\ WF_vars(HandleJob(j))
          /\ WF_vars(Get(j))
          /\ WF_vars(\E o \in CallOutcomes : Call(j, o))
          /\ WF_vars(CreateOk(j) \/ \E e \in CreateErrors : CreateFails(j, e))
          /\ WF_vars(Respond(j))
          /\ WF_vars(Except(j))
    /\ WF_vars(WriterGet)
    /\ WF_vars(WriterSend)

FairSpec == InitLive /\ [][Next]_vars /\ Fairness

(* ------------------------------ properties ---------------------------- *)
\* the jobs the intake loop has read
Accepted == 1..Len(jobs)

\* every result in being: buffered, held by the writer, or transmitted
AllResults == sent \o result \o result_queue

\* how many results of job j a sequence of results holds
ResultCount(results, j) ==
    Cardinality({i \in 1..Len(results) : results[i].job = j})

\* a job that is not flagged a no-op and whose type has no handle_<type> method
Unhandled(job_data) == ~job_data.noop /\ job_data.type \notin HandledTypes

\* the jobs inside a Worker.connection scope
InScope == {j \in JobIds : pc[j] \in {"fn", "create"}}

\* the jobs that hold a connection of endpoint u
Borrowers(u) == {j \in Accepted : hc[j] # NoConn /\ jobs[j].storage_url = u}

\* C1 as claimed, in the form a finite run decides: once the greenlet of an
\* accepted job has ended, exactly one Result has been put for the job.
C1_EveryJobOneResult ==
    \A j \in Accepted :
        pc[j] \in {"done", "dead"} => ResultCount(buffered, j) = 1

\* at no time has a job more than one Result, buffered or in being, and a
\* job whose handler has returned or raised into handle_job has exactly one
OneResultAtMost ==
    \A j \in JobIds :
        /\ ResultCount(buffered, j) <= 1
        /\ ResultCount(AllResults, j) <= 1
        /\ j \notin Accepted => ResultCount(buffered, j) = 0
        /\ pc[j] = "done" => ResultCount(buffered, j) = 1

\* C1 amended: every accepted job that is a no-op or whose type has a handler
\* gets exactly one Result, which is eventually transmitted, whatever the
\* job's outcome; no job ever has more than one.
C1_ExactlyOneResult ==
    /\ []OneResultAtMost
    /\ \A j \in JobIds :
          (j \in Accepted /\ ~Unhandled(jobs[j])) ~> (ResultCount(sent, j) = 1)

\* C1 witness: the failure Result of a job whose handler raised has been
\* transmitted.
C1_Witness ==
    \E i \in 1..Len(sent) :
        /\ sent[i].exception # Absent
        /\ pc[sent[i].job] = "done"

\* C2: for every endpoint's pool, idle connections plus connections borrowed
\* by executing jobs equal the capacity, the idle count never exceeds the
\* capacity, and with no job inside a connection scope the pool is full.
C2_PoolConservation ==
    \A u \in DOMAIN conn_pools :
        /\ Len(conn_pools[u]) + Cardinality(Borrowers(u)) = Concurrency
        /\ Len(conn_pools[u]) <= Concurrency
        /\ (\A j \in InScope : jobs[j].storage_url # u)
              => Len(conn_pools[u]) = Concurrency

\* C2 witness: a job that lost a connection to a broken-connection error and
\* had it replaced is about to borrow again, its pool back at capacity.
C2_Witness ==
    \E j \in Accepted :
        /\ pc[j] = "get"
        /\ attempts[j] # <<>>
        /\ attempts[j][Len(attempts[j])].exc \in BrokenErrors
        /\ Len(conn_pools[jobs[j].storage_url]) = Concurrency

\* C3: at most Concurrency jobs execute handle_job at once; at the limit the
\* intake loop is stuck scheduling the job it has read (it can neither spawn
\* nor read); below the limit it can schedule at once, whatever jobs still run.
C3_BoundedConcurrency ==
    /\ Cardinality(InPool) <= Concurrency
    /\ (intake = "spawn" /\ Cardinality(InPool) = Concurrency)
          => /\ ~ENABLED Spawn
             /\ ~ENABLED EnsurePool
             /\ \A msg \in {EndOfStream} \cup {<<m>> : m \in JobMessages} :
                    ~ENABLED Recv(msg)
    /\ (intake = "spawn" /\ Cardinality(InPool) < Concurrency) => ENABLED Spawn

\* C3 witness: the limit is reached and the intake loop holds one more job.
C3_Witness ==
    /\ intake = "spawn"
    /\ Cardinality(InPool) = Concurrency
    /\ Len(jobs) = Concurrency + 1

\* the jobs that have called fn at least once in ignoring_http_responses
Called == {j \in Accepted : attempts[j] # <<>>}

\* every call of fn by job j so far returned an empty result
AlwaysEmpty(j) == \A i \in 1..Len(attempts[j]) : attempts[j][i] = NoResults

\* C4: when fn returns an empty result on every call, it is called at most
\* max_retries + 1 times, the 'No fn_results' exception is raised exactly when
\* the (max_retries + 1)-th call has returned, and until then the loop goes on.
C4_EmptyResultsExhaust ==
    \A j \in Called :
        AlwaysEmpty(j) =>
            /\ Len(attempts[j]) <= max_retries + 1
            /\ Len(attempts[j]) = max_retries + 1
                  => pc[j] = "except" /\ pending[j] = NoFnResults
            /\ Len(attempts[j]) <= max_retries
                  => pc[j] \in {"get", "fn"} /\ tries[j] = Len(attempts[j])

\* C4 witness: 'No fn_results' raised after three empty results, max_retries 2.
C4_Witness ==
    \E j \in Called :
        /\ AlwaysEmpty(j)
        /\ max_retries = 2
        /\ Len(attempts[j]) = 3
        /\ pc[j] = "except"

\* the outcome is a storage-client error the job's handler does not retry on
NonRetryable(j, o) ==
    /\ o.exc = "ClientException"
    /\ \/ jobs[j].type \in {"upload_object", "update_object"} /\ o.http_status # 503
       \/ jobs[j].type \in {"delete_object", "get_object"}
          /\ o.http_status \notin {404, 503}

\* C5: a storage-client error with a status outside the retryable set is the
\* last call of the invocation and is re-raised as it is, however many
\* attempts remain.
C5_NonRetryableFailsFast ==
    \A j \in Called :
        \A i \in 1..Len(attempts[j]) :
            NonRetryable(j, attempts[j][i])
                => /\ i = Len(attempts[j])
                   /\ pc[j] = "except"
                   /\ pending[j] = attempts[j][i]

\* C5 witness: a non-retryable status on the first call, retries remaining.
C5_Witness ==
    \E j \in Called :
        /\ NonRetryable(j, attempts[j][1])
        /\ Len(attempts[j]) = 1
        /\ max_retries >= 1
        /\ pc[j] = "except"

\* the failure Result of job j for exception e: its description, a non-empty
\* traceback, and no success field
IsFailureOf(r, j, e) ==
    /\ r.job = j
    /\ r.exception = Repr(e)
    /\ r.traceback \notin {Absent, ""}
    /\ r.first_byte_latency = Absent
    /\ r.last_byte_latency = Absent
    /\ r.trans_id = Absent

\* C6: a job whose handler raised has no Result yet; handle_job's next step
\* puts the one failure Result of the job (description and non-empty
\* traceback) and ends the greenlet normally, leaving the intake loop and the
\* other jobs as they are; the intake loop stops on end-of-stream only.
C6_HandlerExceptionResult ==
    /\ [](\A j \in JobIds :
             /\ pc[j] = "except"
                   => ResultCount(buffered, j) = 0 /\ pending[j].exc # None
             /\ pc[j] = "done" => ResultCount(buffered, j) = 1)
    /\ [](intake = "stopped" => job = EndOfStream)
    /\ [][\A j \in JobIds :
             (pc[j] = "except" /\ pc'[j] # "except")
                => /\ pc'[j] = "done"
                   /\ Len(buffered') = Len(buffered) + 1
                   /\ IsFailureOf(buffered'[Len(buffered')], j, pending[j])
                   /\ result_queue' = Append(result_queue, buffered'[Len(buffered')])
                   /\ UNCHANGED intakeVars
                   /\ \A k \in JobIds \ {j} : pc'[k] = pc[k]]_vars

\* C6 witness: a job got a failure Result and a job accepted after it was
\* executed and got its success Result later.
C6_Witness ==
    \E i \in 1..Len(buffered) :
        /\ buffered[i].exception # Absent
        /\ \E k \in (i + 1)..Len(buffered) :
              /\ buffered[k].job > buffered[i].job
              /\ buffered[k].exception = Absent

\* C7: a job that is no no-op and whose type has no handler ends its greenlet
\* with the unknown-job-type NameError and gets no Result at all; only such a
\* job ends that way.
C7_UnknownJobType ==
    \A j \in Accepted :
        /\ Unhandled(jobs[j])
              => /\ ResultCount(buffered, j) = 0
                 /\ pc[j] \in {"none", "handle_job", "dead"}
        /\ pc[j] = "dead" => Unhandled(jobs[j]) /\ pending[j] = UnknownJobType

\* C7 witness: the greenlet of an unknown-type job has ended.
C7_Witness ==
    \E j \in Accepted : pc[j] = "dead" /\ jobs[j].type = UnknownType

\* the delete jobs
Deletes == {j \in Accepted : ~jobs[j].noop /\ jobs[j].type = "delete_object"}

\* C8 as claimed: a delete job that got a 404 never ends in a raised exception
\* (retry exhaustion, and with it a failure Result).
C8_NotFoundNeverFails ==
    \A j \in Deletes :
        (\E i \in 1..Len(attempts[j]) : attempts[j][i] = ClientError(404))
            => pc[j] # "except"

\* C8 amended: a 404 on a delete job is retried while attempts remain: it is
\* re-raised only as the outcome of call max_retries + 1, and on an earlier
\* call the loop goes on to the next call.
C8_NotFoundRetried ==
    \A j \in Deletes :
        \A i \in 1..Len(attempts[j]) :
            attempts[j][i] = ClientError(404)
                => /\ i <= max_retries
                      => (i = Len(attempts[j]) => pc[j] \in {"get", "fn"})
                   /\ (i = Len(attempts[j]) /\ pc[j] = "except")
                      => i = max_retries + 1 /\ pending[j] = ClientError(404)

\* C8 witness: a delete job got a 404, was retried and then succeeded.
C8_Witness ==
    \E j \in Deletes :
        /\ Len(attempts[j]) = 2
        /\ attempts[j][1] = ClientError(404)
        /\ pc[j] = "respond"

\* C9: the results transmitted, the one the writer holds and the ones queued
\* are, in this order, the results in the order they were put; the single
\* writer holds at most one result; every result put is eventually sent.
C9_ResultsInOrder ==
    /\ [](/\ AllResults = buffered
          /\ Len(result) <= 1
          /\ (writer = "send") = (Len(result) = 1))
    /\ \A n \in 1..MaxJobs : (Len(buffered) >= n) ~> (Len(sent) >= n)

\* C9 witness: two results transmitted in completion order, which is not the
\* order the jobs were received in.
C9_Witness ==
    /\ Len(sent) >= 2
    /\ sent[1].job > sent[2].job

\* C10 as claimed: no connection that signalled a broken state is ever in a
\* pool, also when creating its replacement fails.
C10_BrokenNeverPooled ==
    \A u \in DOMAIN conn_pools :
        \A i \in 1..Len(conn_pools[u]) : ~conn_pools[u][i].broken

\* C11 as claimed: a job whose last call hit a broken connection never ends
\* in the retry-exhaustion exception (and its failure Result) for that.
C11_BrokenNeverFailsJob ==
    \A j \in Called :
        attempts[j][Len(attempts[j])].exc \in BrokenErrors
            => ~(pc[j] = "except" /\ pending[j] = NoFnResults)

\* C11 amended: the broken-connection exception itself never reaches the
\* retry loop, the handler or a Result; the call counts as one attempt without
\* a result: while attempts remain the operation is called again, and the job
\* fails with 'No fn_results' only if it was attempt max_retries + 1 (an
\* exception of create() apart).
C11_BrokenCountsAsAttempt ==
    /\ \A i \in 1..Len(buffered) : buffered[i].exception \notin BrokenErrors
    /\ \A j \in Called :
          /\ pc[j] # "create" => pending[j].exc \notin BrokenErrors
          /\ attempts[j][Len(attempts[j])].exc \in BrokenErrors
                => /\ pc[j] \in {"create", "get", "fn", "except"}
                   /\ pc[j] = "except"
                         => \/ /\ pending[j] = NoFnResults
                               /\ Len(attempts[j]) = max_retries + 1
                            \/ pending[j] \in CreateErrors
                   /\ (Len(attempts[j]) <= max_retries /\ pc[j] = "except")
                         => pending[j] = HttpConnectionError

\* C11 witness: a call hit a broken connection, the operation was called
\* again and returned its results.
C11_Witness ==
    \E j \in Called :
        /\ Len(attempts[j]) = 2
        /\ attempts[j][1].exc \in BrokenErrors
        /\ pc[j] = "respond"

\* the jobs handed to pool.spawn so far
Scheduled == {j \in JobIds : pc[j] # "none"}

Referenced ==
    {jobs[i].storage_url :
        i \in 1..(IF intake = "conn_pools" THEN Len(jobs) - 1 ELSE Len(jobs))}

\* a pool as ConnectionPool.__init__ leaves it: size connections of endpoint
\* u in working order, no two the same
IsFreshPool(p, u, size) ==
    /\ Len(p) = size
    /\ \A i \in 1..Len(p) : p[i].url = u /\ ~p[i].broken
    /\ \A i, k \in 1..Len(p) : p[i].n = p[k].n => i = k

\* C13: there is a pool exactly for the endpoints referenced so far, and so
\* for every scheduled job; a pool appears only in the intake loop's pool
\* test, for the endpoint of the job just received, full with Concurrency new
\* connections; a pool that exists stays, the intake loop never touches it
\* again, and it only ever changes by one borrow or one put within its
\* capacity.
C13_PoolCreatedOnce ==
    /\ [](/\ DOMAIN conn_pools = Referenced
          /\ \A j \in JobIds :
                pc[j] # "none" => jobs[j].storage_url \in DOMAIN conn_pools
          /\ \A u \in DOMAIN conn_pools : Len(conn_pools[u]) <= Concurrency)
    /\ [][/\ \A u \in DOMAIN conn_pools' \ DOMAIN conn_pools :
                /\ intake = "conn_pools" /\ intake' = "spawn"
                /\ u = job[1].storage_url
                /\ \A i \in 1..(Len(jobs) - 1) : jobs[i].storage_url # u
                /\ IsFreshPool(conn_pools'[u], u, Concurrency)
          /\ \A u \in DOMAIN conn_pools :
                /\ u \in DOMAIN conn_pools'
                /\ intake' # intake => conn_pools'[u] = conn_pools[u]
                /\ \/ conn_pools'[u] = conn_pools[u]
                   \/ conn_pools[u] # <<>> /\ conn_pools'[u] = Tail(conn_pools[u])
                   \/ /\ Len(conn_pools'[u]) = Len(conn_pools[u]) + 1
                      /\ SubSeq(conn_pools'[u], 1, Len(conn_pools[u]))
                            = conn_pools[u]]_vars

\* C13 witness: both endpoints have their pool, a third job on an endpoint
\* already known has been scheduled, and a connection of that endpoint is
\* borrowed.
C13_Witness ==
    /\ DOMAIN conn_pools = URLs
    /\ Len(jobs) = 3
    /\ pc[3] # "none"
    /\ \E j \in {1, 2} :
          /\ jobs[j].storage_url = jobs[3].storage_url
          /\ hc[j] # NoConn

\* the jobs that hold a connection
Holders == {j \in JobIds : hc[j] # NoConn}

\* C14: no two jobs hold the same connection, no held connection is also in
\* a pool, no connection is twice in a pool, every connection in a pool is
\* one of that pool's endpoint, and a job holds a connection of its own
\* endpoint only.
C14_ExclusiveConnections ==
    /\ \A j, k \in Holders :
          (hc[j].url = hc[k].url /\ hc[j].n = hc[k].n) => j = k
    /\ \A j \in Holders :
          /\ hc[j].url = jobs[j].storage_url
          /\ hc[j].url \in DOMAIN conn_pools
          /\ \A i \in 1..Len(conn_pools[hc[j].url]) :
                conn_pools[hc[j].url][i].n # hc[j].n
    /\ \A u \in DOMAIN conn_pools :
          \A i, k \in 1..Len(conn_pools[u]) :
              /\ conn_pools[u][i].url = u
              /\ conn_pools[u][i].n = conn_pools[u][k].n => i = k

\* C14 witness: two jobs on one endpoint hold a connection each, one of them
\* a connection that was borrowed before and put back.
C14_Witness ==
    \E j, k \in Holders :
        /\ j # k
        /\ hc[j].url = hc[k].url
        /\ \E i \in Accepted \ {j, k} :
              /\ jobs[i].storage_url = hc[j].url
              /\ pc[i] = "done"

\* every call of fn by job j so far raised socket.error
AlwaysSocketError(j) ==
    \A i \in 1..Len(attempts[j]) : attempts[j][i].exc = "socket.error"

\* every call of fn by job j so far raised a ClientException with a status
\* the job's handler retries on
AlwaysRetryableStatus(j) ==
    \A i \in 1..Len(attempts[j]) :
        /\ attempts[j][i].exc = "ClientException"
        /\ \/ attempts[j][i].http_status = 503
           \/ /\ attempts[j][i].http_status = 404
              /\ jobs[j].type \in {"delete_object", "get_object"}

\* C15: when every call raises socket.error, or every call raises a
\* ClientException with a retryable status, fn is called at most
\* max_retries + 1 times, the loop goes on until then, and when call
\* max_retries + 1 has failed the exception that call raised is the one
\* raised to the handler.
C15_ExhaustionReraises ==
    \A j \in Called :
        (AlwaysSocketError(j) \/ AlwaysRetryableStatus(j))
            => /\ Len(attempts[j]) <= max_retries + 1
               /\ Len(attempts[j]) = max_retries + 1
                     => /\ pc[j] = "except"
                        /\ pending[j] = attempts[j][Len(attempts[j])]
                        /\ pending[j] # NoFnResults
               /\ Len(attempts[j]) <= max_retries
                     => pc[j] \in {"get", "fn"} /\ tries[j] = Len(attempts[j])

\* C15 witness: with max_retries 2, three calls that all raised a retryable
\* ClientException, the last one raised to the handler.
C15_Witness ==
    \E j \in Called :
        /\ AlwaysRetryableStatus(j)
        /\ max_retries = 2
        /\ Len(attempts[j]) = 3
        /\ pc[j] = "except"

\* with max_retries 2, three calls that all raised socket.error
C15_WitnessSocket ==
    \E j \in Called :
        /\ AlwaysSocketError(j)
        /\ max_retries = 2
        /\ Len(attempts[j]) = 3
        /\ pc[j] = "except"

Writes == {"upload_object", "update_object"}
Reads == {"delete_object", "get_object"}

\* C16: a ClientException with status 404 on an upload or update job, or
\* with a status outside {404, 503} on any job, is the last call of the
\* invocation and is raised to the handler as it is; a 503 on any job, and a
\* 404 on a delete or get job, on a call numbered max_retries or less is
\* followed by another call.
C16_StatusesPerType ==
    \A j \in Called :
        \A i \in 1..Len(attempts[j]) :
            LET o == attempts[j][i] IN
            o.exc = "ClientException"
                => /\ (\/ jobs[j].type \in Writes /\ o.http_status = 404
                       \/ o.http_status \notin {404, 503})
                         => /\ i = Len(attempts[j])
                            /\ pc[j] = "except"
                            /\ pending[j] = o
                   /\ (/\ \/ o.http_status = 503
                          \/ jobs[j].type \in Reads /\ o.http_status = 404
                       /\ i <= max_retries
                       /\ i = Len(attempts[j]))
                         => pc[j] \in {"get", "fn"}

\* C16 witness: an update job failed on a 404 from its first call with
\* retries left.
C16_Witness ==
    \E j \in Called :
        /\ jobs[j].type = "update_object"
        /\ max_retries = 2
        /\ attempts[j] = <<ClientError(404)>>
        /\ pc[j] = "except"

\* a get job is called again after a 404
C16_WitnessGet ==
    \E j \in Called :
        /\ jobs[j].type = "get_object"
        /\ Len(attempts[j]) = 2
        /\ attempts[j][1] = ClientError(404)

\* the accepted jobs flagged as no-op
Noops == {j \in Accepted : jobs[j].noop}

\* the Result handle_noop builds for job j
NoopResult(j) ==
    [job |-> j, first_byte_latency |-> "0.0", last_byte_latency |-> "0.0",
     trans_id |-> None, exception |-> Absent, traceback |-> Absent]

\* C17: a job flagged as no-op, whatever its type, goes from dispatch
\* straight to its end: it never holds a connection, never calls the storage
\* service and never raises; when it has ended, its one and only Result is
\* the success Result with latencies 0.0 and trans_id None; and the step it
\* takes puts that Result on the queue and changes no pool and no borrowed
\* connection.
C17_NoopJob ==
    /\ [](\A j \in Noops :
             /\ pc[j] \in {"none", "handle_job", "done"}
             /\ hc[j] = NoConn
             /\ attempts[j] = <<>>
             /\ ResultCount(buffered, j) = (IF pc[j] = "done" THEN 1 ELSE 0)
             /\ \A i \in 1..Len(buffered) :
                   buffered[i].job = j => buffered[i] = NoopResult(j))
    /\ [][\A j \in Noops :
             pc[j] = "handle_job" /\ pc'[j] # "handle_job"
                => /\ pc'[j] = "done"
                   /\ buffered' = Append(buffered, NoopResult(j))
                   /\ result_queue' = Append(result_queue, NoopResult(j))
                   /\ UNCHANGED <<conn_pools, hc, attempts>>]_vars

\* C17 witness: a no-op job of a type without handler has ended with its
\* Result, its endpoint's pool full.
C17_Witness ==
    \E j \in Noops :
        /\ jobs[j].type = UnknownType
        /\ pc[j] = "done"
        /\ ResultCount(buffered, j) = 1
        /\ Len(conn_pools[jobs[j].storage_url]) = Concurrency

\* the idle connections of job j's endpoint
Idle(j) == conn_pools[jobs[j].storage_url]

\* C18: a job about to borrow finds an idle connection in its endpoint's
\* pool, so its get can be taken at once; a job inside the scope finds the
\* pool below its capacity, so the put at the scope's exit can be taken at
\* once; hence the executing jobs are never all waiting for the pool.
C18_BorrowNeverWaits ==
    /\ \A j \in InPool :
          /\ pc[j] = "get" => Idle(j) # <<>> /\ ENABLED Get(j)
          /\ pc[j] = "fn"
                => /\ Len(Idle(j)) < Concurrency
                   /\ ENABLED (\E o \in CallOutcomes : Call(j, o))
          /\ pc[j] = "create"
                => Len(Idle(j)) < Concurrency /\ ENABLED CreateOk(j)
    /\ InPool # {}
          => \E j \in InPool : ~(pc[j] = "get" /\ Idle(j) = <<>>)

\* C18 witness: the concurrency limit is reached by jobs on one endpoint, one
\* holds a connection and the other is about to borrow.
C18_Witness ==
    /\ Cardinality(InPool) = Concurrency
    /\ \E j, k \in InPool :
          /\ jobs[j].storage_url = jobs[k].storage_url
          /\ pc[j] = "get"
          /\ pc[k] = "fn"
          /\ Len(Idle(j)) = Concurrency - 1

\* C19: whatever the outcomes, fn is called at most max_retries + 1 times in
\* one invocation; the one counter has counted every finished attempt once
\* when the next one starts; after call max_retries + 1 the invocation has
\* ended or is leaving its last scope; and a job holds a connection only
\* inside a scope, not between attempts and not when its Result is put.
C19_SharedAttemptBudget ==
    \A j \in Accepted :
        /\ Len(attempts[j]) <= max_retries + 1
        /\ tries[j] <= max_retries + 1
        /\ pc[j] \in {"get", "fn"}
              => tries[j] = Len(attempts[j]) /\ tries[j] <= max_retries
        /\ pc[j] = "create" => tries[j] = Len(attempts[j]) - 1
        /\ Len(attempts[j]) = max_retries + 1
              => pc[j] \in {"create", "respond", "except"}
        /\ hc[j] # NoConn <=> pc[j] \in {"fn", "create"}

\* C19 witness: with max_retries 2, a broken connection, then socket.error,
\* then a retryable status used up the three attempts, and the job is about
\* to put its failure Result holding no connection.
C19_Witness ==
    \E j \in Called :
        /\ max_retries = 2
        /\ Len(attempts[j]) = 3
        /\ attempts[j][1].exc \in BrokenErrors
        /\ attempts[j][2] = SocketError
        /\ attempts[j][3] = ClientError(503)
        /\ pc[j] = "except"
        /\ hc[j] = NoConn

====
